---- MODULE Spec2Model ----
(***************************************************************************)
(* Model of the validated reactive storage: the class _storage (a Map of   *)
(* key -> [state, setter] pairs with an optional validator) and the Proxy  *)
(* that createStorage wraps around it.                                     *)
(*                                                                         *)
(* A reactive cell (createState of @lithium-framework/state) is a number   *)
(* c; cells[c] is state.value and the raw setter of the cell replaces it.  *)
(* A Promise returned by the validator is an element of pending; the       *)
(* reactions registered on it by .then(...).catch(...) run from the        *)
(* microtask queue jobs, first in first out.                               *)
(***************************************************************************)
EXTENDS Integers, Sequences, FiniteSets, TLC

\* ---------------------------------------------------------------- bounds
\* Values written and stored are 0..MaxVal.
MaxVal == 1
\* At most MaxDeferred deferred validations are in flight at a time.
MaxDeferred == 2
\* At most MaxAdded cells are created after construction (Map.set).
MaxAdded == 1

Values == 0 .. MaxVal

\* Property names used on the handle: a data key, a name that is also a
\* member of the class ("get"), and a name that is never a key ("zz").
Keys == {"k1", "get", "zz"}

\* Function-valued members of a _storage instance (own and inherited from Map).
MapMethods ==
  {"get", "has", "set", "delete", "clear", "values", "entries", "keys", "forEach"}

\* Initial records handed to createStorage, as the ordered list of their
\* own keys (Object.keys order) with the value of each.
RecordChoices ==
  { << >>,
    << [key |-> "k1", value |-> 0] >>,
    << [key |-> "get", value |-> 1], [key |-> "k1", value |-> 0] >> }

\* The records argument of createStorage: given or left out.
RecordArgs ==
  {[given |-> TRUE, rec |-> r] : r \in RecordChoices}
    \cup {[given |-> FALSE, rec |-> << >>]}

\* What a validator call returns: an immediate boolean or a Promise.  The
\* Promise is pending when the setter returns; one that is settled already
\* is one that settles before the next operation.
ValidatorResults ==
  { [kind |-> "boolean", st |-> "none",    res |-> "true"],
    [kind |-> "boolean", st |-> "none",    res |-> "false"],
    [kind |-> "promise", st |-> "pending", res |-> "none"] }

\* How a pending Promise settles.
Outcomes ==
  { [st |-> "fulfilled", res |-> "true"],
    [st |-> "fulfilled", res |-> "false"],
    [st |-> "rejected",  res |-> "none"] }

\* Placeholder of the cell of a value that is no pair.
NoCell == 0 - 1

\* The result of an unguarded setter call: no validator is called.
NoResult == [kind |-> "none", st |-> "none", res |-> "none"]

VARIABLES
  records,    \* the initial record, after defaulting (never changes)
  validator,  \* TRUE iff _validator is bound
  map,        \* the Map's entries: key -> cell
  cells,      \* cells[c] = the value held by cell c (state.value)
  pending,    \* the validator's Promises not yet settled, in call order
  jobs,       \* the microtask queue of Promise reactions
  resolved,   \* history: the deferred write whose outcome resolved last
  lastOp,     \* the last setter call, failed access, Map mutator or reaction
  held,       \* the pair a caller got from get and keeps, or NoHeld
  asked,      \* log: the validator calls made by the last step
  approved    \* log: per cell, the value of the last write approved at once

vars ==
  <<records, validator, map, cells, pending, jobs, resolved, lastOp,
    held, asked, approved>>

\* ------------------------------------------------------------- the store

\* Map.prototype.set on the entries m.
MapPut(m, key, c) ==
  [x \in (DOMAIN m) \cup {key} |-> IF x = key THEN c ELSE m[x]]

\* Map.prototype.delete on the entries m.
MapRemove(m, key) ==
  [x \in (DOMAIN m) \ {key} |-> m[x]]

\* A constructor that never enters the loop (`if (records)` never taken).
constructorEmpty(recs, m, cs) == [map |-> m, cells |-> cs]

\* The constructor's loop: Object.keys(records).forEach(key =>
\*   this.set(key, createState(records[key]))).
RECURSIVE constructor(_, _, _)
constructor(recs, m, cs) ==
  IF recs = << >>
    THEN [map |-> m, cells |-> cs]
    ELSE constructor(Tail(recs),
                     MapPut(m, Head(recs).key, Len(cs) + 1),
                     Append(cs, Head(recs).value))

\* createStorage's default parameter: records = {}.
DefaultRecords(arg) == IF arg.given THEN arg.rec ELSE << >>

EmptyMap == [x \in {} |-> NoCell]

\* Map.prototype.has.
has(key) == key \in DOMAIN map

\* The value read through the pair stored under key (state.value).
Read(key) == cells[map[key]]

\* The keys of the initial record.
InitialKeys == {records[i].key : i \in 1 .. Len(records)}

\* A value returned to the caller: a [state, setter] pair (tag "pair", with
\* the cell and whether the setter is the guarded one), a bound method, a
\* plain value, undefined, or a thrown TypeError (tag "fault").
Ret(tag, key, c, guarded) ==
  [tag |-> tag, key |-> key, cell |-> c, guarded |-> guarded]

\* A get that hands out the guarded setter whether or not a validator is
\* bound (the test of this._validator left out).
storageGetGuarded(key) ==
  IF has(key) THEN Ret("pair", key, map[key], TRUE)
              ELSE Ret("fault", key, NoCell, FALSE)

\* _storage.get(key).  Without a validator it is Map.prototype.get: the raw
\* pair, or undefined for a key with no entry.  With a validator the entry is
\* destructured first, which throws on undefined, and the setter returned is
\* the guarded closure.
storageGet(key) ==
  IF ~validator
    THEN IF has(key) THEN Ret("pair", key, map[key], FALSE)
                     ELSE Ret("undefined", key, NoCell, FALSE)
    ELSE IF has(key) THEN Ret("pair", key, map[key], TRUE)
                     ELSE Ret("fault", key, NoCell, FALSE)

\* typeof target[key] on the _storage instance behind the Proxy.
TargetKind(key) ==
  IF key \in MapMethods THEN "function"
  ELSE IF key = "size" THEN "number"
  ELSE IF key = "_validator" THEN (IF validator THEN "function" ELSE "object")
  ELSE "undefined"

\* The test `if (target[key])`.
TargetTruthy(key) ==
  \/ key \in MapMethods
  \/ key = "size" /\ Cardinality(DOMAIN map) > 0
  \/ key = "_validator" /\ validator

\* The Proxy's get trap: handle[key].
proxyGet(key) ==
  IF TargetTruthy(key)
    THEN IF TargetKind(key) = "function"
           THEN Ret("method", key, NoCell, FALSE)
           ELSE Ret("value", key, NoCell, FALSE)
    ELSE IF has(key) THEN storageGet(key)
                     ELSE Ret("undefined", key, NoCell, FALSE)

\* A set trap that reports nothing after calling the stored setter
\* (`return true` left out).
proxySetReturnNothing(key) == "undefined"

\* What the Proxy's set trap returns: true after calling the stored setter,
\* undefined for a key with no entry.
proxySetReturn(key) == IF has(key) THEN "true" ELSE "undefined"

\* What the assignment handle[key] = v does with the trap's return value: a
\* falsy return makes it throw a TypeError in strict-mode code (every ES
\* module) and is ignored in sloppy-mode code.
Assignment(trapReturn, strict) ==
  IF trapReturn = "true" THEN "true"
  ELSE IF strict THEN "fault" ELSE "undefined"

\* The branch `result instanceof Promise`.
IsPromise(result) == result.kind = "promise"

\* A branch that commits on every immediate result (`else setter(newValue)`).
ApprovesAnyBoolean(result) == result.kind = "boolean"

\* A branch that no immediate result takes (`else if (result === "true")`).
ApprovesNever(result) == FALSE

\* The branch `else if (result == true)`.
Approves(result) == result.kind = "boolean" /\ result.res = "true"

\* A setter shared by all cells: every held value is replaced.
mutatorAll(cs, c, newValue) == [d \in DOMAIN cs |-> newValue]

\* The raw setter of cell c: the held value is replaced.
mutator(cs, c, newValue) == [cs EXCEPT ![c] = newValue]

\* A guarded setter that commits before the Promise has settled
\* (`setter(newValue)` called next to `result.then(...)`).
guardedCellsEager(cs, c, newValue, result) ==
  IF IsPromise(result) \/ (result.kind = "boolean" /\ result.res = "true")
    THEN [cs EXCEPT ![c] = newValue]
    ELSE cs

\* The cells after the synchronous part of the guarded setter.
guardedCells(cs, c, newValue, result) ==
  IF IsPromise(result) THEN cs
  ELSE IF Approves(result) THEN mutator(cs, c, newValue)
  ELSE cs

\* Placeholder of the newValue of a reaction that calls no setter.
NoVal == 0 - 1

\* A reaction that commits only on a truthy fulfilment
\* (`.then(ok => ok && setter(newValue))`).
onSettledTruthy(st, res) ==
  IF st = "fulfilled" /\ res = "true" THEN "call" ELSE "pass"

\* A reaction that commits however the Promise settles
\* (`.finally(() => setter(newValue))`).
onSettledFinally(st, res) == "call"

\* Which way the then-reaction goes for a promise settled in state st with
\* value res: the callback takes no argument, so it is called on every
\* fulfilment; a rejection passes through to the derived promise.
onSettled(st, res) == IF st = "fulfilled" THEN "call" ELSE "pass"

\* A reaction in the microtask queue.  kind "then" is the one registered by
\* .then(() => setter(newValue)): run "call" carries the callback's closure
\* (the cell of its setter and newValue), run "pass" calls nothing.  kind
\* "catch" is the one registered by .catch(error => console.error(error)).
Job(kind, c, newValue, run) ==
  IF run = "call"
    THEN [kind |-> kind, cell |-> c, val |-> newValue, run |-> run]
    ELSE [kind |-> kind, cell |-> NoCell, val |-> NoVal, run |-> run]

\* A Promise the validator returned that has not settled, with the closure
\* of the reaction waiting on it.
Waiting(c, newValue) == [cell |-> c, val |-> newValue]

\* A setter that registers its reaction twice on the validator's Promise.
thenPendingTwice(ps, c, newValue, result) ==
  IF result.kind = "promise"
    THEN ps \o << [cell |-> c, val |-> newValue], [cell |-> c, val |-> newValue] >>
    ELSE ps

\* result.then(...) on the validator's Promise: the unsettled promises after it.
thenPending(ps, c, newValue, result) ==
  IF IsPromise(result) /\ result.st = "pending"
    THEN Append(ps, Waiting(c, newValue))
    ELSE ps

\* result.then(...) on the validator's Promise: the microtask queue after
\* it; a reaction on a promise that is already settled is queued at once.
thenJobs(q, c, newValue, result) ==
  IF IsPromise(result) /\ result.st # "pending"
    THEN Append(q, Job("then", c, newValue, onSettled(result.st, result.res)))
    ELSE q

\* No deferred write has resolved since cell c was last written directly.
NoResolved == [cell |-> NoCell, val |-> NoVal]

\* The history variable after a direct (not deferred) commit to cell c.
Direct(r, c) == IF r.cell = c THEN NoResolved ELSE r

\* The last operation and its outcome: a setter call with what the validator
\* returned, an access that reached no setter, a Map mutator, a settlement
\* or a reaction.
Op(name, ret) == [op |-> name, ret |-> ret]

\* How a setter call went: no validator, or what the validator returned.
Outcome(result) ==
  IF result = NoResult THEN "unguarded"
  ELSE IF IsPromise(result) THEN "deferred"
  ELSE IF result.res = "true" THEN "true" ELSE "false"

\* Calling setter(newValue) of a pair: the raw mutator, or the guarded
\* closure, which calls the validator (returning result) once.
setter(pair, newValue, result) ==
  IF pair.guarded
    THEN /\ cells' = guardedCells(cells, pair.cell, newValue, result)
         /\ pending' = thenPending(pending, pair.cell, newValue, result)
         /\ jobs' = thenJobs(jobs, pair.cell, newValue, result)
         /\ resolved' =
              IF IsPromise(result) /\ result.st = "fulfilled"
                THEN Waiting(pair.cell, newValue)
              ELSE IF cells' # cells THEN Direct(resolved, pair.cell)
              ELSE resolved
    ELSE /\ cells' = mutator(cells, pair.cell, newValue)
         /\ resolved' = Direct(resolved, pair.cell)
         /\ UNCHANGED <<pending, jobs>>

\* A guarded setter that does nothing while a validation is in flight (a
\* lock held until the Promise settles).
ResultsForLocked(pair) ==
  IF pair.guarded
    THEN {r \in ValidatorResults : pending = << >>}
    ELSE {NoResult}

\* The results the validator can give in a call of this setter (at most
\* MaxDeferred deferred validations are in flight); an unguarded setter
\* calls no validator.
ResultsFor(pair) ==
  IF pair.guarded
    THEN {r \in ValidatorResults :
            IsPromise(r) => Len(pending) + Len(jobs) < MaxDeferred}
    ELSE {NoResult}

\* No pair is kept by a caller.
NoHeld == [pair |-> Ret("undefined", "", NoCell, FALSE), got |-> NoVal]

\* --------------------------------------------------------------- actions

\* createStorage(records, stateValidator): new Proxy(_storage.init(...)).
Init ==
  \E arg \in RecordArgs, v \in BOOLEAN :
    LET built == constructor(DefaultRecords(arg), EmptyMap, << >>) IN
      /\ records = DefaultRecords(arg)
      /\ validator = v
      /\ map = built.map
      /\ cells = built.cells
      /\ pending = << >>
      /\ jobs = << >>
      /\ resolved = NoResolved
      /\ lastOp = Op("createStorage", "handle")
      /\ held = NoHeld
      /\ asked = << >>
      /\ approved = built.cells

\* The raw pair stored under key, as the bound Map methods values(),
\* entries() and forEach(...) hand it out.
rawEntry(key) == Ret("pair", key, map[key], FALSE)

\* handle.get(key)[1](newValue), the validator (if bound) returning result.
\* On a key with no entry nothing is called: get throws (validator bound) or
\* the caller indexes undefined.
GetSet(key, newValue, result) ==
  IF has(key)
    THEN /\ result \in ResultsFor(storageGet(key))
         /\ setter(storageGet(key), newValue, result)
         /\ lastOp' = Op("setter", Outcome(result))
         /\ UNCHANGED <<records, validator, map>>
    ELSE /\ result = NoResult
         /\ lastOp' = Op("getSet", "fault")
         /\ UNCHANGED <<records, validator, map, cells, pending, jobs, resolved>>

\* The setter of an entry handed out by handle.values(), handle.entries()
\* or handle.forEach(...), called with newValue.
RawSet(key, newValue) ==
  /\ has(key)
  /\ setter(rawEntry(key), newValue, NoResult)
  /\ lastOp' = Op("rawSetter", "unguarded")
  /\ UNCHANGED <<records, validator, map>>

\* The Proxy's set trap, handle[key] = newValue, from strict or sloppy code,
\* the validator (if bound) returning result.
ProxySet(key, newValue, result, strict) ==
  IF has(key)
    THEN /\ result \in ResultsFor(storageGet(key))
         /\ setter(storageGet(key), newValue, result)
         /\ lastOp' = Op("setter", Outcome(result))
         /\ Assignment(proxySetReturn(key), strict) = "true"
         /\ UNCHANGED <<records, validator, map>>
    ELSE /\ result = NoResult
         /\ lastOp' = Op("proxySet", Assignment(proxySetReturn(key), strict))
         /\ UNCHANGED <<records, validator, map, cells, pending, jobs, resolved>>

\* Keys given to Map.set after construction; "get" and "zz" are never added.
SetKeys == {"k1"}

\* handle.set(key, createState(value)): the bound Map.prototype.set.
MapSet(key, value) ==
  /\ Len(cells) < Len(records) + MaxAdded
  /\ cells' = Append(cells, value)
  /\ map' = MapPut(map, key, Len(cells) + 1)
  /\ lastOp' = Op("set", "handle")
  /\ UNCHANGED <<records, validator, pending, jobs, resolved>>

\* handle.delete(key): the bound Map.prototype.delete.
MapDelete(key) ==
  /\ has(key)
  /\ map' = MapRemove(map, key)
  /\ lastOp' = Op("delete", "true")
  /\ UNCHANGED <<records, validator, cells, pending, jobs, resolved>>

\* handle.clear(): the bound Map.prototype.clear.
MapClear ==
  /\ map' = EmptyMap
  /\ lastOp' = Op("clear", "undefined")
  /\ UNCHANGED <<records, validator, cells, pending, jobs, resolved>>

\* The sequence s without its i-th element.
Without(s, i) == SubSeq(s, 1, i - 1) \o SubSeq(s, i + 1, Len(s))

\* The i-th unsettled Promise settles and its reaction is queued; with i > 1
\* it overtakes the validations of earlier calls.
Settle(i, outcome) ==
  /\ i \in 1 .. Len(pending)
  /\ pending' = Without(pending, i)
  /\ jobs' = Append(jobs, Job("then", pending[i].cell, pending[i].val,
                              onSettled(outcome.st, outcome.res)))
  /\ resolved' = IF outcome.st = "fulfilled" THEN pending[i] ELSE resolved
  /\ lastOp' = Op(IF i = 1 THEN "settle" ELSE "overtake",
                  IF outcome.st = "fulfilled" THEN outcome.res ELSE outcome.st)
  /\ UNCHANGED <<records, validator, map, cells>>

\* A then-reaction that does not call the setter (`.then(() => setter)`).
thenCellsUncalled(cs, job) == cs

\* The cells after the then-reaction job has run.
thenCells(cs, job) ==
  IF job.run = "call" THEN mutator(cs, job.cell, job.val) ELSE cs

\* The queue after the then-reaction at its head has run: a rejection passes
\* through to the derived promise, whose catch reaction is queued; after a
\* fulfilment the catch handler has nothing to do.
thenQueue(q) ==
  IF Head(q).run = "pass"
    THEN Append(Tail(q), Job("catch", NoCell, NoVal, "pass"))
    ELSE Tail(q)

\* The first microtask is a then-reaction.
ThenJob ==
  /\ jobs # << >>
  /\ Head(jobs).kind = "then"
  /\ cells' = thenCells(cells, Head(jobs))
  /\ jobs' = thenQueue(jobs)
  /\ lastOp' = Op("then", Head(jobs).run)
  /\ UNCHANGED <<records, validator, map, pending, resolved>>

\* What the catch handler does with the error: console.error(error).
catchHandler == "console.error"

\* The first microtask is a catch-reaction.
CatchJob ==
  /\ jobs # << >>
  /\ Head(jobs).kind = "catch"
  /\ jobs' = Tail(jobs)
  /\ lastOp' = Op("catch", catchHandler)
  /\ UNCHANGED <<records, validator, map, cells, pending, resolved>>

\* The validator results to try in a write to key.
ResultsOf(key) ==
  IF has(key) THEN ResultsFor(storageGet(key)) ELSE {NoResult}

\* The caller's modes to try in a property write to key: the mode shows only
\* when the trap returns undefined.
ModesOf(key) == IF has(key) THEN {TRUE} ELSE BOOLEAN

\* The step keeps no pair and writes no log.
Unlogged == UNCHANGED <<held, asked, approved>>

\* The operations on the entries the store was built with: the setters got
\* from get, from the property write and from the Map's iterators, and the
\* validator's Promises and their reactions.
StoreNext ==
  \/ \E key \in Keys :
       \E newValue \in Values, result \in ResultsOf(key) :
         GetSet(key, newValue, result) /\ Unlogged
  \/ \E key \in Keys, newValue \in Values : RawSet(key, newValue) /\ Unlogged
  \/ \E key \in Keys :
       \E newValue \in Values, result \in ResultsOf(key),
          strict \in ModesOf(key) :
         ProxySet(key, newValue, result, strict) /\ Unlogged
  \/ \E i \in 1 .. MaxDeferred, outcome \in Outcomes :
       Settle(i, outcome) /\ Unlogged
  \/ ThenJob /\ Unlogged
  \/ CatchJob /\ Unlogged

\* The Map mutators the handle inherits.
MapNext ==
  \/ \E key \in SetKeys, value \in Values : MapSet(key, value) /\ Unlogged
  \/ \E key \in Keys : MapDelete(key) /\ Unlogged
  \/ MapClear /\ Unlogged

Next == StoreNext \/ MapNext

\* Every operation the handle offers.
Spec == Init /\ [][Next]_vars

\* The behaviours in which no inherited Map mutator is called.
SpecStore == Init /\ [][StoreNext]_vars

\* No deferred validation is in flight.
Idle == pending = << >> /\ jobs = << >>

\* One write at a time: a setter is called only when no deferred validation
\* is in flight.
SingleNext ==
  \/ /\ Idle
     /\ \E key \in Keys :
          \E newValue \in Values, result \in ResultsOf(key) :
            GetSet(key, newValue, result) /\ Unlogged
  \/ /\ Idle
     /\ \E key \in Keys :
          \E newValue \in Values, result \in ResultsOf(key),
             strict \in ModesOf(key) :
            ProxySet(key, newValue, result, strict) /\ Unlogged
  \/ \E i \in 1 .. MaxDeferred, outcome \in Outcomes :
       Settle(i, outcome) /\ Unlogged
  \/ ThenJob /\ Unlogged
  \/ CatchJob /\ Unlogged

\* One write at a time, and the microtask queue is drained: a queued
\* reaction runs.
FairSpecSingle ==
  /\ Init /\ [][SingleNext]_vars
  /\ WF_vars(ThenJob /\ Unlogged) /\ WF_vars(CatchJob /\ Unlogged)

\* ------------------------------------------------------------ the log

\* A closure that hands the validator the value read when the pair was got
\* (`let previousValue = state.value` hoisted out of the setter).
validatorCallsStale(pair, got, newValue) ==
  IF pair.guarded
    THEN << [key |-> pair.key, previousValue |-> got, newValue |-> newValue] >>
    ELSE << >>

\* The validator calls one call of a setter makes.  The guarded closure reads
\* state.value when it is called and calls
\* this._validator(key, previousValue, newValue) once; got is the value the
\* entry held when the pair was obtained, which the closure does not use.
\* The raw setter calls no validator.
validatorCalls(pair, got, newValue) ==
  IF pair.guarded
    THEN << [key |-> pair.key, previousValue |-> cells[pair.cell],
             newValue |-> newValue] >>
    ELSE << >>

\* The log of a call of the setter of pair, the validator returning result.
Logged(pair, got, newValue, result) ==
  /\ asked' = validatorCalls(pair, got, newValue)
  /\ approved' =
       IF pair.guarded /\ result.kind = "boolean" /\ result.res = "true"
         THEN [approved EXCEPT ![pair.cell] = newValue]
         ELSE approved

\* The log of a write to key made in one go (the pair is got and its setter
\* called at once); a key with no entry reaches no setter.
LoggedWrite(key, newValue, result) ==
  /\ IF has(key)
       THEN Logged(storageGet(key), Read(key), newValue, result)
       ELSE asked' = << >> /\ approved' = approved
  /\ held' = held

\* The log of a step that calls no setter.
NoCalls == asked' = << >> /\ UNCHANGED <<held, approved>>

\* let pair = handle.get(key): the caller keeps the pair.
Obtain(key) ==
  /\ has(key)
  /\ held' = [pair |-> storageGet(key), got |-> Read(key)]
  /\ asked' = << >>
  /\ lastOp' = Op("get", "pair")
  /\ UNCHANGED <<records, validator, map, cells, pending, jobs, resolved,
                 approved>>

\* pair[1](newValue) on the pair kept, the validator (if bound) returning
\* result.
CallHeld(newValue, result) ==
  /\ held # NoHeld
  /\ result \in ResultsFor(held.pair)
  /\ setter(held.pair, newValue, result)
  /\ lastOp' = Op("setter", Outcome(result))
  /\ Logged(held.pair, held.got, newValue, result)
  /\ UNCHANGED <<records, validator, map, held>>

\* The results the validator can give to a kept setter.
ResultsHeld == IF held = NoHeld THEN {} ELSE ResultsFor(held.pair)

\* The results of a validator that defers one validation at a time.
OneAtATime(S) == {result \in S : IsPromise(result) => Idle}

\* The writes through get and through the property write, with the
\* validator's calls logged, and the validator's Promises (one in flight at a
\* time) and their reactions.
AuditNext ==
  \/ \E key \in Keys :
       \E newValue \in Values, result \in OneAtATime(ResultsOf(key)) :
         GetSet(key, newValue, result) /\ LoggedWrite(key, newValue, result)
  \/ \E key \in Keys :
       \E newValue \in Values, result \in OneAtATime(ResultsOf(key)),
          strict \in ModesOf(key) :
         /\ ProxySet(key, newValue, result, strict)
         /\ LoggedWrite(key, newValue, result)
  \/ \E i \in 1 .. MaxDeferred, outcome \in Outcomes :
       Settle(i, outcome) /\ NoCalls
  \/ ThenJob /\ NoCalls
  \/ CatchJob /\ NoCalls

\* The behaviours with the validator's calls logged.
SpecAudit == Init /\ [][AuditNext]_vars

\* What a validator that answers at once can return.
SyncResults(S) == {result \in S : ~IsPromise(result)}

\* The writes to a store whose validator (if bound) answers at once: through
\* get, through the property write and through a pair the caller keeps.
SyncNext ==
  \/ \E key \in Keys :
       \E newValue \in Values, result \in SyncResults(ResultsOf(key)) :
         GetSet(key, newValue, result) /\ LoggedWrite(key, newValue, result)
  \/ \E key \in Keys :
       \E newValue \in Values, result \in SyncResults(ResultsOf(key)),
          strict \in ModesOf(key) :
         /\ ProxySet(key, newValue, result, strict)
         /\ LoggedWrite(key, newValue, result)
  \/ \E key \in Keys : Obtain(key)
  \/ \E newValue \in Values, result \in SyncResults(ResultsHeld) :
       CallHeld(newValue, result)

\* The behaviours of a store whose validator answers at once.
SpecSync == Init /\ [][SyncNext]_vars

\* ---------------------------------------------------------------- claims

True == [kind |-> "boolean", st |-> "none", res |-> "true"]
False == [kind |-> "boolean", st |-> "none", res |-> "false"]

\* The step is a write of newValue to key through the setter got from get or
\* through the property write, the validator (if any) returning result.
Write(key, newValue, result) ==
  \/ GetSet(key, newValue, result)
  \/ \E strict \in ModesOf(key) : ProxySet(key, newValue, result, strict)

\* The cells a store can hold: those of the longest initial record and the
\* ones added later.
CellIds ==
  1 .. (MaxAdded + CHOOSE n \in 0 .. Cardinality(Keys) :
                     /\ \A r \in RecordChoices : Len(r) <= n
                     /\ \E r \in RecordChoices : Len(r) = n)

\* Cell c holds value.
Holds(c, value) == c \in DOMAIN cells /\ cells[c] = value

\* The then-reaction of a fulfilled deferred write of newValue to cell c is queued.
Queued(c, newValue) ==
  \E i \in 1 .. Len(jobs) : jobs[i] = Job("then", c, newValue, "call")

\* C1. Synchronous rejection: with a validator bound, a write to a key of the
\* initial record whose validator call returns the boolean false leaves every
\* held value as it was and leaves nothing in flight that could change one
\* later.
C1_SyncRejection ==
  [][(validator /\ lastOp' = Op("setter", "false")) =>
     \A key \in InitialKeys, newValue \in Values :
       (has(key) /\ Write(key, newValue, False))
         => /\ cells' = cells
            /\ map' = map
            /\ pending' = pending
            /\ jobs' = jobs]_vars

C1_Witness ==
  /\ validator
  /\ lastOp = Op("setter", "false")
  /\ has("k1")
  /\ Read("k1") = 0

\* C2. Synchronous approval: with a validator bound, a write of v to a key of
\* the initial record whose validator call returns the boolean true has
\* committed v when it returns: the value read under the key is v, also
\* through the pair got before the write, and nothing is left in flight.
C2_SyncApproval ==
  [][(validator /\ lastOp' = Op("setter", "true")) =>
     \A key \in InitialKeys, newValue \in Values :
       (has(key) /\ Write(key, newValue, True))
         => /\ Read(key)' = newValue
            /\ cells'[storageGet(key).cell] = newValue
            /\ pending' = pending
            /\ jobs' = jobs]_vars

C2_Witness ==
  /\ validator
  /\ lastOp = Op("setter", "true")
  /\ has("k1")
  /\ Read("k1") = 1

\* C3. Unguarded passthrough: with no validator, a write of v to a key of the
\* initial record is followed by a read of v under that key, whatever the
\* step's other inputs.
C3_UnguardedPassthrough ==
  [][(~validator /\ lastOp'.op = "setter") =>
     \A key \in InitialKeys, newValue \in Values,
        result \in ValidatorResults \cup {NoResult} :
       (has(key) /\ Write(key, newValue, result))
         => /\ Read(key)' = newValue
            /\ pending' = << >>
            /\ jobs' = << >>]_vars

C3_Witness ==
  /\ ~validator
  /\ lastOp = Op("setter", "unguarded")
  /\ has("k1")
  /\ Read("k1") = 1

\* C4. Deferred approval: a single write whose validator returns a Promise
\* leaves every held value as it was when the write returns and for as long
\* as the outcome has not resolved; once the outcome of a write of v has
\* resolved, the value of its cell eventually is v.
C4_DeferredApproval ==
  /\ [][(pending # << >> \/ pending' # << >>) => cells' = cells]_vars
  /\ \A c \in CellIds, newValue \in Values :
       Queued(c, newValue) ~> Holds(c, newValue)

C4_Witness ==
  /\ validator
  /\ lastOp = Op("then", "call")
  /\ Idle
  /\ has("k1")
  /\ Read("k1") = 1
  /\ resolved = Waiting(map["k1"], 1)

\* The reaction of a fulfilled deferred write to cell c is queued.
QueuedFor(c) ==
  \E i \in 1 .. Len(jobs) : jobs[i].run = "call" /\ jobs[i].cell = c

\* C5. Race on concurrent guarded writes: a resolution queues its reaction
\* behind those of the outcomes resolved before it, whatever the call order,
\* and leaves the other validations pending; each reaction commits its own
\* newValue when it runs and drops no other; so once the reactions of the
\* resolved outcomes have run, the value held is that of the write that
\* resolved last.
C5_Race ==
  /\ [](resolved # NoResolved /\ ~QueuedFor(resolved.cell)
          => Holds(resolved.cell, resolved.val))
  /\ [][lastOp'.op \in {"settle", "overtake"}
          => /\ Len(jobs') = Len(jobs) + 1
             /\ SubSeq(jobs', 1, Len(jobs)) = jobs
             /\ Len(pending') = Len(pending) - 1
             /\ cells' = cells]_vars
  /\ [][(lastOp'.op = "then" /\ Head(jobs).run = "call")
          => /\ cells'[Head(jobs).cell] = Head(jobs).val
             /\ jobs' = Tail(jobs)
             /\ pending' = pending]_vars

\* The write called second has resolved first, to the same cell with another
\* value, and the write called first is still being validated.
C5_Witness ==
  /\ lastOp = Op("overtake", "true")
  /\ Len(pending) = 1
  /\ Len(jobs) = 1
  /\ jobs[1].run = "call"
  /\ jobs[1].cell = pending[1].cell
  /\ jobs[1].val # pending[1].val
  /\ resolved = Waiting(jobs[1].cell, jobs[1].val)

\* C6. Deferred resolution always commits: no value changes when the write
\* returns or when its outcome settles; the reaction queued at settlement
\* calls the setter iff the outcome is a fulfilment, whatever value it is
\* fulfilled with; and the reaction commits newValue iff it calls the setter.
C6_ResolutionCommits ==
  /\ [][lastOp'.ret = "deferred" => cells' = cells]_vars
  /\ [][lastOp'.op \in {"settle", "overtake"} =>
          \A i \in 1 .. Len(pending), outcome \in Outcomes :
            Settle(i, outcome)
              => /\ cells' = cells
                 /\ jobs' = Append(jobs,
                      IF outcome.st = "fulfilled"
                        THEN [kind |-> "then", cell |-> pending[i].cell,
                              val |-> pending[i].val, run |-> "call"]
                        ELSE [kind |-> "then", cell |-> NoCell,
                              val |-> NoVal, run |-> "pass"])]_vars
  /\ [][lastOp'.op = "then"
          => cells' = IF Head(jobs).run = "call"
                        THEN [cells EXCEPT ![Head(jobs).cell] = Head(jobs).val]
                        ELSE cells]_vars

\* An outcome fulfilled with false has queued the reaction that commits.
C6_Witness ==
  /\ lastOp = Op("settle", "false")
  /\ has("k1")
  /\ Read("k1") = 0
  /\ jobs = << Job("then", map["k1"], 1, "call") >>

\* C7. Deferred failure never commits: a rejection changes no value when it
\* fires and queues a reaction that calls no setter; that reaction changes
\* no value and hands the error to the catch reaction, which logs it with
\* console.error and changes no value; no step of the failure path is a
\* fault of the caller.
C7_FailureNeverCommits ==
  /\ [][lastOp'.ret = "rejected"
          => /\ cells' = cells
             /\ map' = map
             /\ jobs' = Append(jobs, [kind |-> "then", cell |-> NoCell,
                                      val |-> NoVal, run |-> "pass"])]_vars
  /\ [][(lastOp'.op = "then" /\ Head(jobs).run = "pass")
          => /\ cells' = cells
             /\ map' = map
             /\ jobs' = Append(Tail(jobs),
                               [kind |-> "catch", cell |-> NoCell,
                                val |-> NoVal, run |-> "pass"])]_vars
  /\ [][(jobs # << >> /\ Head(jobs).kind = "catch" /\ jobs' = Tail(jobs))
          => /\ cells' = cells
             /\ map' = map
             /\ lastOp' = Op("catch", "console.error")]_vars

C7_Witness ==
  /\ validator
  /\ lastOp = Op("catch", "console.error")
  /\ Idle
  /\ has("k1")
  /\ Read("k1") = 0
  /\ resolved = NoResolved

\* C8. Gated mutation: with a validator bound, every step that replaces the
\* value held under a key is the commit of the gated path: a setter call
\* whose validator call returned true, or the reaction of a resolved deferred
\* outcome.
C8_GatedMutation ==
  [][(validator /\ \E key \in (DOMAIN map) \cap (DOMAIN map') :
                     Read(key)' # Read(key))
       => lastOp' \in {Op("setter", "true"), Op("then", "call")}]_vars

\* C9. Entry-set invariant: the keys that have an entry are the keys of the
\* initial record.
C9_EntrySet == DOMAIN map = InitialKeys

\* C10. Absent key through the facade: a key that is not in the initial
\* record and is never added (here: one that names no member of the store
\* either) has no entry and reads as undefined, and a property write to a key
\* with no entry yields the failure value, never a fault.
C10_AbsentKey ==
  /\ \A key \in Keys \ InitialKeys :
       TargetKind(key) = "undefined"
         => ~has(key) /\ proxyGet(key).tag = "undefined"
  /\ lastOp.op = "proxySet" => lastOp.ret = "undefined"

\* C11. Explicit get on an absent key: for every key with no entry,
\* get(key) returns undefined and raises no fault, with or without a
\* validator bound.
C11_GetAbsent ==
  \A key \in Keys : ~has(key) => storageGet(key).tag = "undefined"

\* C12. Property read equals get: for every data key of the initial record,
\* whatever its name, handle[key] yields what get(key) yields; only a key
\* that names a store method and is no data key yields the bound method.
C12_ReadEqualsGet ==
  /\ \A key \in InitialKeys : has(key) => proxyGet(key) = storageGet(key)
  /\ \A key \in Keys :
       proxyGet(key).tag = "method" => key \in MapMethods \ InitialKeys

\* What a setter call can get from the validator, or NoResult without one.
AnyResult == ValidatorResults \cup {NoResult}

\* The step is the property write handle[key] = newValue, logged.
ProxyWrite(key, newValue, result) ==
  \E strict \in ModesOf(key) :
    ProxySet(key, newValue, result, strict) /\ LoggedWrite(key, newValue, result)

\* The step is the call handle.get(key)[1](newValue), logged.
GetWrite(key, newValue, result) ==
  GetSet(key, newValue, result) /\ LoggedWrite(key, newValue, result)

\* C13. Property write equals the stored setter: for every key with an
\* entry, a step is the property write handle[key] = newValue iff it is the
\* call get(key)[1](newValue) with the same validator result; with a
\* validator bound the step calls it exactly once, with (key, value held,
\* newValue), without one it calls none; and the assignment reports success
\* whatever the validator returned.
C13_WriteEqualsSetter ==
  [][lastOp'.op = "setter" =>
       \A key \in DOMAIN map, newValue \in Values,
          result \in {r \in AnyResult : Outcome(r) = lastOp'.ret} :
         /\ ProxyWrite(key, newValue, result) <=> GetWrite(key, newValue, result)
         /\ ProxyWrite(key, newValue, result) =>
              /\ asked' = IF validator
                            THEN << [key |-> key, previousValue |-> Read(key),
                                     newValue |-> newValue] >>
                            ELSE << >>
              /\ \A strict \in BOOLEAN :
                   Assignment(proxySetReturn(key), strict) = "true"]_vars

\* A write of 0 to k1, which holds 1, was rejected after one validator call.
C13_Witness ==
  /\ validator
  /\ lastOp = Op("setter", "false")
  /\ has("k1")
  /\ Read("k1") = 1
  /\ asked = << [key |-> "k1", previousValue |-> 1, newValue |-> 0] >>

\* C14. Validated history: in a store whose validator answers at once with a
\* boolean, after any sequence of writes the value read under a key of the
\* initial record is the value of the most recent write the validator
\* approved, or the initial value if it approved none; so no held value was
\* put there by a rejected write.
C14_ValidatedHistory ==
  validator =>
    \A key \in InitialKeys : has(key) /\ Read(key) = approved[map[key]]

\* The E2E scenario: k1 starts at 0, a write of 1 was approved, then a write
\* of 0 was rejected, and k1 still reads 1.
C14_Witness ==
  /\ validator
  /\ records = << [key |-> "k1", value |-> 0] >>
  /\ lastOp = Op("setter", "false")
  /\ asked = << [key |-> "k1", previousValue |-> 1, newValue |-> 0] >>
  /\ approved = << 1 >>
  /\ Read("k1") = 1

\* C15. Construction: in the store createStorage returns, has(key) is true
\* exactly for the keys of the records, get(key) of each is a pair whose
\* value is the record's, and a missing or empty record gives an empty store.
C15_Construction ==
  lastOp = Op("createStorage", "handle") =>
    /\ \A key \in Keys :
         has(key) <=> \E i \in 1 .. Len(records) : records[i].key = key
    /\ \A i \in 1 .. Len(records) :
         /\ storageGet(records[i].key).tag = "pair"
         /\ cells[storageGet(records[i].key).cell] = records[i].value
    /\ records = << >> => DOMAIN map = {} /\ cells = << >>

C15_Witness ==
  /\ lastOp = Op("createStorage", "handle")
  /\ records = << [key |-> "get", value |-> 1], [key |-> "k1", value |-> 0] >>
  /\ has("get") /\ Read("get") = 1
  /\ has("k1") /\ Read("k1") = 0
  /\ ~has("zz")

\* C16. Fresh previous value: when the guarded setter of a pair the caller
\* kept is called, the validator is called with the value the entry holds at
\* that moment, whatever it held when the pair was got.
C16_FreshPreviousValue ==
  [][(validator /\ held # NoHeld /\ lastOp'.op = "setter") =>
       \A newValue \in Values, result \in ValidatorResults :
         CallHeld(newValue, result) =>
           asked' = << [key |-> held.pair.key,
                        previousValue |-> Read(held.pair.key),
                        newValue |-> newValue] >>]_vars

\* The setter of a kept pair was called after the value it was got with had
\* been replaced, and the validator was given another value than that one.
C16_Witness ==
  /\ validator
  /\ held # NoHeld
  /\ lastOp.op = "setter"
  /\ Len(asked) = 1
  /\ asked[1].key = held.pair.key
  /\ asked[1].previousValue # held.got

\* C17. Non-blocking pending validation: a setter call whose validator
\* defers returns in the same step, with the validation pending and no value
\* changed; and while a validation is pending, settled or not, every key
\* with an entry can be read (get returns its pair) and written: a write the
\* validator approves at once is enabled and commits, and one it rejects is
\* enabled.
C17_NonBlocking ==
  /\ [][lastOp'.ret = "deferred"
          => /\ Len(pending') = Len(pending) + 1
             /\ jobs' = jobs
             /\ cells' = cells]_vars
  /\ [](pending # << >> =>
          \A key \in DOMAIN map, newValue \in Values :
            /\ storageGet(key).tag = "pair"
            /\ storageGet(key).cell = map[key]
            /\ ENABLED (/\ GetSet(key, newValue, True)
                        /\ Unlogged
                        /\ cells'[map[key]] = newValue)
            /\ ENABLED (GetSet(key, newValue, False) /\ Unlogged))

\* While the validation of a write of 0 to k1 was pending, a write of 1 to
\* k1 was approved at once and committed.
C17_Witness ==
  /\ has("k1")
  /\ pending = << Waiting(map["k1"], 0) >>
  /\ lastOp = Op("setter", "true")
  /\ Read("k1") = 1
  /\ jobs = << >>

\* The validator's Promise, as the setter sees it when it returns.
Deferred == [kind |-> "promise", st |-> "pending", res |-> "none"]

\* Every cell but c holds after the step what it held before, and the
\* entries are the same.
OnlyCell(c) ==
  /\ map' = map
  /\ DOMAIN cells' = DOMAIN cells
  /\ \A d \in DOMAIN cells : d # c => cells'[d] = cells[d]

\* C18. Frame of a write: a write to key, whatever the validator returns,
\* changes no entry and no value but the one held under key; a write that
\* reaches no setter changes nothing; a deferred write waits with the cell of
\* its own key; a settlement and a catch reaction change nothing; and the
\* reaction of a resolved write changes no value but that of its own cell.
C18_Frame ==
  /\ [][lastOp'.op = "setter" =>
          \A key \in DOMAIN map, newValue \in Values,
             result \in {r \in AnyResult : Outcome(r) = lastOp'.ret} :
            \/ /\ OnlyCell(map[key])
               /\ result = Deferred =>
                    pending' = Append(pending, Waiting(map[key], newValue))
            \/ ~Write(key, newValue, result)]_vars
  /\ [][lastOp'.op \in {"getSet", "proxySet", "settle", "overtake", "catch"}
          => cells' = cells /\ map' = map]_vars
  /\ [][lastOp'.op \in {"settle", "overtake"} =>
          \E i \in 1 .. Len(pending) :
            /\ pending' = Without(pending, i)
            /\ jobs'[Len(jobs')].cell \in {pending[i].cell, NoCell}]_vars
  /\ [][lastOp'.op = "then" => OnlyCell(Head(jobs).cell)]_vars

\* A deferred write of 1 to k1 has committed while the key "get" holds 0.
C18_Witness ==
  /\ lastOp = Op("then", "call")
  /\ has("k1") /\ has("get")
  /\ resolved = Waiting(map["k1"], 1)
  /\ Read("k1") = 1
  /\ Read("get") = 0

\* C19. One validation, at most one commit: a call of a guarded setter calls
\* the validator exactly once, in the step of the call, with the key the
\* setter was got for; a call answered at once commits newValue or nothing
\* and leaves nothing behind; a deferred call commits nothing and leaves one
\* waiting reaction for its cell and newValue; a settlement turns one waiting
\* reaction into one queued reaction and a reaction runs once, committing
\* the newValue of its call or nothing; no settlement or reaction calls the
\* validator.
C19_OneValidationOneCommit ==
  /\ [][(validator /\ lastOp'.op = "setter") =>
          \A key \in DOMAIN map, newValue \in Values,
             result \in {r \in ValidatorResults : Outcome(r) = lastOp'.ret} :
            GetWrite(key, newValue, result) =>
              /\ Len(asked') = 1
              /\ asked'[1].key = key
              /\ asked'[1].newValue = newValue
              /\ IF result = Deferred
                   THEN /\ cells' = cells
                        /\ jobs' = jobs
                        /\ pending' = Append(pending, Waiting(map[key], newValue))
                   ELSE /\ cells' \in {cells, [cells EXCEPT ![map[key]] = newValue]}
                        /\ jobs' = jobs
                        /\ pending' = pending]_vars
  /\ [][lastOp'.op \in {"settle", "overtake"} =>
          /\ asked' = << >>
          /\ cells' = cells
          /\ Len(pending') = Len(pending) - 1
          /\ Len(jobs') = Len(jobs) + 1
          /\ \E i \in 1 .. Len(pending) :
               /\ pending' = Without(pending, i)
               /\ jobs'[Len(jobs')] \in
                    { Job("then", pending[i].cell, pending[i].val, "call"),
                      Job("then", pending[i].cell, pending[i].val, "pass") }]_vars
  /\ [][lastOp'.op = "then" =>
          /\ asked' = << >>
          /\ pending' = pending
          /\ IF Head(jobs).run = "call"
               THEN /\ cells' = [cells EXCEPT ![Head(jobs).cell] = Head(jobs).val]
                    /\ jobs' = Tail(jobs)
               ELSE /\ cells' = cells
                    /\ Len(jobs') = Len(jobs)
                    /\ jobs'[Len(jobs')].run = "pass"]_vars
  /\ [][lastOp'.op = "catch" =>
          asked' = << >> /\ cells' = cells /\ jobs' = Tail(jobs)]_vars

\* A deferred write of 1 to k1 has committed, once, with nothing left in
\* flight; no write to k1 was ever approved at once.
C19_Witness ==
  /\ validator
  /\ lastOp = Op("then", "call")
  /\ Idle
  /\ asked = << >>
  /\ has("k1")
  /\ Read("k1") = 1
  /\ approved[map["k1"]] = 0

====
